---- MODULE Spec2Model ----
\* Incremental position evaluation of the Fiddler engine: the piece-square
\* table evaluator (engine/src/evaluate/pst.rs and its older twin
\* engine/src/pst.rs) and the mobility evaluator
\* (engine/src/evaluate/mobility.rs), run over boards reached by making
\* pseudo-legal moves from a set of starting positions.
\*
\* Board, Move, Square and the attack tables live in the fiddler_base crate,
\* whose source is not part of the files modelled here; they are modelled by
\* their chess meaning and kept apart below (section "fiddler_base").
EXTENDS Integers, Sequences, FiniteSets, TLC

\* ---------------------------------------------------------------- bounds
\* Number of moves made from a starting position.
MaxPly == 1

\* The main piece-square table of evaluate/pst.rs: rows in the order of the
\* source's row comments (N, B, R, Q, P, K), 64 (midgame, endgame) pairs each,
\* A1 first.  Row r and square s of the source are PST[r + 1][s + 1] here.

PST ==
  <<
    <<
      <<-152, -46>>, <<-1, -18>>, <<-54, -17>>, <<-32, -13>>, <<-26, -22>>, <<-32, -18>>, <<-3, -17>>, <<-78, -33>>,
      <<-84, -13>>, <<-58, -6>>, <<-15, 0>>, <<5, 0>>, <<5, 0>>, <<-18, -2>>, <<-34, -5>>, <<-36, -38>>,
      <<-16, -28>>, <<-10, 6>>, <<3, 3>>, <<10, 9>>, <<14, 0>>, <<12, 15>>, <<8, -1>>, <<-17, -23>>,
      <<-11, -25>>, <<-14, 1>>, <<7, 10>>, <<9, 16>>, <<16, 0>>, <<6, 1>>, <<7, 0>>, <<-3, -17>>,
      <<0, -12>>, <<10, 3>>, <<25, 12>>, <<41, 16>>, <<22, 11>>, <<53, 17>>, <<10, 3>>, <<23, -17>>,
      <<-5, -13>>, <<22, 2>>, <<7, 12>>, <<52, 0>>, <<47, 0>>, <<7, 0>>, <<38, -11>>, <<17, -13>>,
      <<-23, -28>>, <<-14, -18>>, <<51, -15>>, <<-4, 2>>, <<23, -5>>, <<22, -8>>, <<-3, -15>>, <<-2, -33>>,
      <<-77, -37>>, <<-46, -49>>, <<-36, -12>>, <<-23, -15>>, <<-8, -16>>, <<-74, -13>>, <<-41, -36>>, <<-91, -32>>
    >>,
    <<
      <<-51, -11>>, <<-14, -4>>, <<0, -11>>, <<-27, -11>>, <<-30, -1>>, <<-9, -13>>, <<-26, -15>>, <<-47, 0>>,
      <<-32, -3>>, <<0, -4>>, <<-5, -6>>, <<-2, 0>>, <<4, 0>>, <<-5, 0>>, <<17, -2>>, <<-27, -1>>,
      <<-10, 0>>, <<0, 5>>, <<9, 5>>, <<8, 5>>, <<6, 1>>, <<9, 11>>, <<2, 5>>, <<-12, -6>>,
      <<-13, -2>>, <<-7, -6>>, <<9, 8>>, <<16, 2>>, <<8, -2>>, <<0, -2>>, <<-3, -8>>, <<0, -6>>,
      <<-4, 0>>, <<3, 0>>, <<4, 11>>, <<23, 5>>, <<25, 0>>, <<17, 3>>, <<0, 7>>, <<3, -6>>,
      <<-15, -3>>, <<7, -6>>, <<-19, 0>>, <<17, 0>>, <<2, -4>>, <<-40, 0>>, <<25, -3>>, <<6, -5>>,
      <<-20, 2>>, <<-4, 4>>, <<-5, 0>>, <<-81, 0>>, <<-58, 1>>, <<0, 0>>, <<-15, 0>>, <<-18, -16>>,
      <<-21, -5>>, <<-25, 0>>, <<-47, 0>>, <<-41, 0>>, <<-24, -13>>, <<-83, 0>>, <<-30, -12>>, <<-8, -19>>
    >>,
    <<
      <<-3, 4>>, <<-4, 6>>, <<-3, 5>>, <<0, 1>>, <<0, 0>>, <<4, -1>>, <<-16, 0>>, <<-19, 2>>,
      <<-28, -9>>, <<-20, 1>>, <<-9, -2>>, <<-6, 0>>, <<-4, 0>>, <<-3, -9>>, <<-7, -1>>, <<-30, 0>>,
      <<-27, 0>>, <<-25, 3>>, <<-12, -1>>, <<-6, -8>>, <<-13, -2>>, <<-17, -5>>, <<-1, -6>>, <<-23, -5>>,
      <<-19, -6>>, <<-10, 0>>, <<-3, 0>>, <<-6, -2>>, <<-11, -5>>, <<-19, -5>>, <<-9, -1>>, <<-16, -13>>,
      <<-7, -1>>, <<-15, -1>>, <<2, 7>>, <<-1, -1>>, <<-2, -3>>, <<0, -1>>, <<-11, -8>>, <<-7, -10>>,
      <<-1, 0>>, <<2, 5>>, <<4, 0>>, <<9, 2>>, <<2, 0>>, <<23, -15>>, <<17, -6>>, <<4, -4>>,
      <<8, 6>>, <<15, 10>>, <<33, 10>>, <<31, 6>>, <<28, 0>>, <<33, 0>>, <<34, 3>>, <<21, -2>>,
      <<0, 9>>, <<18, 0>>, <<13, 0>>, <<7, 1>>, <<11, 1>>, <<-5, 4>>, <<7, -3>>, <<8, 3>>
    >>,
    <<
      <<-22, -7>>, <<-31, -1>>, <<-24, 4>>, <<4, 0>>, <<-18, 0>>, <<-44, 0>>, <<-13, 0>>, <<-19, -2>>,
      <<-74, 0>>, <<-46, 2>>, <<-3, 11>>, <<-1, 0>>, <<6, 0>>, <<0, -2>>, <<-6, 0>>, <<0, -6>>,
      <<-30, 0>>, <<-4, 0>>, <<-1, 9>>, <<0, 2>>, <<0, 8>>, <<14, 3>>, <<0, 0>>, <<3, 0>>,
      <<-15, 0>>, <<-17, 14>>, <<-2, 0>>, <<3, 4>>, <<5, 8>>, <<0, 6>>, <<4, 0>>, <<0, 0>>,
      <<-21, -3>>, <<-16, 1>>, <<-1, 0>>, <<13, 0>>, <<24, 0>>, <<27, 0>>, <<14, 0>>, <<17, 0>>,
      <<-16, 0>>, <<-13, 0>>, <<9, 0>>, <<28, 2>>, <<51, 0>>, <<69, 7>>, <<91, -4>>, <<54, -16>>,
      <<-30, 0>>, <<-26, -1>>, <<0, 0>>, <<17, 0>>, <<23, -1>>, <<76, 0>>, <<47, -4>>, <<68, -13>>,
      <<-11, -5>>, <<8, 0>>, <<19, 0>>, <<11, 12>>, <<36, 4>>, <<29, 0>>, <<35, 3>>, <<38, -18>>
    >>,
    <<
      <<0, 0>>, <<0, 0>>, <<0, 0>>, <<0, 0>>, <<0, 0>>, <<0, 0>>, <<0, 0>>, <<0, 0>>,
      <<-9, 0>>, <<5, 3>>, <<-13, -1>>, <<-10, -5>>, <<1, 0>>, <<12, -2>>, <<18, 1>>, <<-12, -3>>,
      <<-8, -9>>, <<-3, 3>>, <<-3, -6>>, <<-4, 0>>, <<2, -3>>, <<0, -8>>, <<5, -1>>, <<-6, -13>>,
      <<-7, 5>>, <<-1, 10>>, <<1, -1>>, <<9, -7>>, <<9, -7>>, <<-2, -7>>, <<-3, 1>>, <<-13, -9>>,
      <<0, 23>>, <<13, 20>>, <<3, 9>>, <<16, 3>>, <<10, -1>>, <<7, 3>>, <<10, 9>>, <<-6, 8>>,
      <<29, 68>>, <<45, 70>>, <<33, 48>>, <<51, 44>>, <<51, 23>>, <<48, 33>>, <<39, 50>>, <<23, 45>>,
      <<49, 92>>, <<44, 77>>, <<63, 72>>, <<88, 71>>, <<85, 55>>, <<60, 48>>, <<47, 44>>, <<27, 71>>,
      <<0, 0>>, <<0, 0>>, <<0, 0>>, <<0, 0>>, <<0, 0>>, <<0, 0>>, <<0, 0>>, <<0, 0>>
    >>,
    <<
      <<-44, -40>>, <<4, -37>>, <<2, -24>>, <<-31, -24>>, <<-12, -22>>, <<-25, -10>>, <<15, -28>>, <<-30, -46>>,
      <<-33, -27>>, <<-9, -23>>, <<-9, -14>>, <<-25, -9>>, <<-10, -3>>, <<-4, -5>>, <<8, -17>>, <<-10, -17>>,
      <<-36, -34>>, <<-11, -11>>, <<-9, -1>>, <<-10, 0>>, <<-8, 7>>, <<-7, 5>>, <<-6, 0>>, <<-31, -16>>,
      <<-38, -17>>, <<0, -8>>, <<-4, 13>>, <<0, 14>>, <<0, 10>>, <<0, 8>>, <<-4, -2>>, <<-38, -9>>,
      <<-19, -22>>, <<16, 9>>, <<22, 11>>, <<11, 21>>, <<6, 16>>, <<16, 15>>, <<15, 10>>, <<-12, -12>>,
      <<-3, -13>>, <<23, 0>>, <<28, 8>>, <<11, 17>>, <<14, 18>>, <<35, 12>>, <<29, 3>>, <<0, 2>>,
      <<-4, -9>>, <<22, -3>>, <<24, 4>>, <<13, 7>>, <<18, 0>>, <<23, 5>>, <<39, -5>>, <<8, -16>>,
      <<-30, -27>>, <<-6, -36>>, <<-17, -17>>, <<-29, -7>>, <<-16, -6>>, <<-9, 4>>, <<23, -28>>, <<0, -28>>
    >>
  >>

\* The literal tables handed to expand_table in pst.rs (midgame, endgame).

MIDGAME_CENTI ==
  <<
    <<
      -167, -89, -34, -49, 61, -97, -15, -107,
      -73, -41, 72, 36, 23, 62, 7, -17,
      -47, 60, 37, 65, 84, 129, 73, 44,
      -9, 17, 19, 53, 37, 69, 18, 22,
      -13, 4, 16, 13, 28, 19, 21, -8,
      -23, -9, 12, 10, 19, 17, 25, -16,
      -29, -53, -12, -3, -1, 18, -14, -19,
      -105, -21, -58, -33, -17, -28, -19, -23
    >>,
    <<
      -29, 4, -82, -37, -25, -42, 7, -8,
      -26, 16, -18, -13, 30, 59, 18, -47,
      -16, 37, 43, 40, 35, 50, 37, -2,
      -4, 5, 19, 50, 37, 37, 7, -2,
      -6, 13, 13, 26, 34, 12, 10, 4,
      0, 15, 15, 15, 14, 27, 18, 10,
      4, 15, 16, 0, 7, 21, 33, 1,
      -33, -3, -14, -21, -13, -12, -39, -21
    >>,
    <<
      32, 42, 32, 51, 63, 9, 31, 43,
      27, 32, 58, 62, 80, 67, 26, 44,
      -5, 19, 26, 36, 17, 45, 61, 16,
      -24, -11, 7, 26, 24, 35, -8, -20,
      -36, -26, -12, -1, 9, -7, 6, -23,
      -45, -25, -16, -17, 3, 0, -5, -33,
      -44, -16, -20, -9, -1, 11, -6, -71,
      -19, -13, 1, 17, 16, 7, -37, -26
    >>,
    <<
      -28, 0, 29, 12, 59, 44, 43, 45,
      -24, -39, -5, 1, -16, 57, 28, 54,
      -13, -17, 7, 8, 29, 56, 47, 57,
      -27, -27, -16, -16, -1, 17, -2, 1,
      -9, -26, -9, -10, -2, -4, 3, -3,
      -14, 2, -11, -2, -5, 2, 14, 5,
      -35, -8, 11, 2, 8, 15, -3, 1,
      -1, -18, -9, 10, -15, -25, -31, -50
    >>,
    <<
      0, 0, 0, 0, 0, 0, 0, 0,
      98, 134, 61, 95, 68, 126, 34, -11,
      -6, 7, 26, 31, 65, 56, 25, -20,
      -14, 13, 6, 21, 23, 12, 17, -23,
      -27, -2, -5, 12, 17, 6, 10, -25,
      -26, -4, -4, -10, 3, 3, 33, -12,
      -35, -1, -20, -23, -15, 24, 38, -22,
      0, 0, 0, 0, 0, 0, 0, 0
    >>,
    <<
      -65, 23, 16, -15, -56, -34, 2, 13,
      29, -1, -20, -7, -8, -4, -38, -29,
      -9, 24, 2, -16, -20, 6, 22, -22,
      -17, -20, -12, -27, -30, -25, -14, -36,
      -49, -1, -27, -39, -46, -44, -33, -51,
      -14, -14, -22, -46, -44, -30, -15, -27,
      1, 7, -8, -64, -43, -16, 9, 8,
      -15, 36, 12, -54, 8, -28, 24, 14
    >>
  >>

ENDGAME_CENTI ==
  <<
    <<
      -58, -38, -13, -28, -31, -27, -63, -99,
      -25, -8, -25, -2, -9, -25, -24, -52,
      -24, -20, 10, 9, -1, -9, -19, -41,
      -17, 3, 22, 22, 22, 11, 8, -18,
      -18, -6, 16, 25, 16, 17, 4, -18,
      -23, -3, -1, 15, 10, -3, -20, -22,
      -42, -20, -10, -5, -2, -20, -23, -44,
      -29, -51, -23, -15, -22, -18, -50, -64
    >>,
    <<
      -14, -21, -11, -8, -7, -9, -17, -24,
      -8, -4, 7, -12, -3, -13, -4, -14,
      2, -8, 0, -1, -2, 6, 0, 4,
      -3, 9, 12, 9, 14, 10, 3, 2,
      -6, 3, 13, 19, 7, 10, -3, -9,
      -12, -3, 8, 10, 13, 3, -7, -15,
      -14, -18, -7, -1, 4, -9, -15, -27,
      -23, -9, -23, -5, -9, -16, -5, -17
    >>,
    <<
      13, 10, 18, 15, 12, 12, 8, 5,
      11, 13, 13, 11, -3, 3, 8, 3,
      7, 7, 7, 5, 4, -3, -5, -3,
      4, 3, 13, 1, 2, 1, -1, 2,
      3, 5, 8, 4, -5, -6, -8, -11,
      -4, 0, -5, -1, -7, -12, -8, -16,
      -6, -6, 0, 2, -9, -9, -11, -3,
      -9, 2, 3, -1, -5, -13, 4, -20
    >>,
    <<
      -9, 22, 22, 27, 27, 19, 10, 20,
      -17, 20, 32, 41, 58, 25, 30, 0,
      -20, 6, 9, 49, 47, 35, 19, 9,
      3, 22, 24, 45, 57, 40, 57, 36,
      -18, 28, 19, 47, 31, 34, 39, 23,
      -16, -27, 15, 6, 9, 17, 10, 5,
      -22, -23, -30, -16, -16, -23, -36, -32,
      -33, -28, -22, -43, -5, -32, -20, -41
    >>,
    <<
      0, 0, 0, 0, 0, 0, 0, 0,
      178, 173, 158, 134, 147, 132, 165, 187,
      94, 100, 85, 67, 56, 53, 82, 84,
      32, 24, 13, 5, -2, 4, 17, 17,
      13, 9, -3, -7, -7, -8, 3, -1,
      4, 7, -6, 1, 0, -5, -1, -8,
      13, 8, 8, 10, 13, 0, 2, -7,
      0, 0, 0, 0, 0, 0, 0, 0
    >>,
    <<
      -74, -35, -18, -18, -11, 15, 4, -17,
      -12, 17, 14, 17, 17, 38, 23, 11,
      10, 17, 23, 15, 20, 45, 44, 13,
      -8, 22, 24, 27, 26, 33, 26, 3,
      -18, -4, 21, 24, 27, 23, 9, -11,
      -19, -3, 11, 21, 23, 16, 7, -9,
      -27, -11, 4, 13, 14, 4, -5, -17,
      -53, -34, -21, -11, -28, -14, -24, -43
    >>
  >>

\* The literal table handed to expand_attacks in evaluate/mobility.rs.

ATTACKS_LITERAL ==
  <<
    <<
      <<-1, 0>>, <<-12, 0>>, <<-15, -2>>, <<-12, -5>>, <<3, -8>>, <<12, -1>>, <<12, -3>>,
      <<18, 6>>, <<17, 1>>, <<0, 0>>, <<0, 0>>, <<0, 0>>, <<0, 0>>, <<0, 0>>,
      <<0, 0>>, <<0, 0>>, <<0, 0>>, <<0, 0>>, <<0, 0>>, <<0, 0>>, <<0, 0>>,
      <<0, 0>>, <<0, 0>>, <<0, 0>>, <<0, 0>>, <<0, 0>>, <<0, 0>>, <<0, 0>>
    >>,
    <<
      <<-38, 0>>, <<-19, -1>>, <<-9, -3>>, <<-5, -5>>, <<1, -4>>, <<9, -2>>, <<12, -2>>,
      <<13, -2>>, <<19, 2>>, <<19, 0>>, <<11, 2>>, <<8, 0>>, <<1, 0>>, <<1, 0>>,
      <<0, 0>>, <<0, 0>>, <<0, 0>>, <<0, 0>>, <<0, 0>>, <<0, 0>>, <<0, 0>>,
      <<0, 0>>, <<0, 0>>, <<0, 0>>, <<0, 0>>, <<0, 0>>, <<0, 0>>, <<0, 0>>
    >>,
    <<
      <<-19, 0>>, <<-12, 0>>, <<-11, 0>>, <<-10, 0>>, <<-6, 0>>, <<-6, 0>>, <<-4, 0>>,
      <<-1, 4>>, <<0, 5>>, <<5, 2>>, <<8, -2>>, <<9, 0>>, <<15, 3>>, <<11, 2>>,
      <<11, 8>>, <<0, 0>>, <<0, 0>>, <<0, 0>>, <<0, 0>>, <<0, 0>>, <<0, 0>>,
      <<0, 0>>, <<0, 0>>, <<0, 0>>, <<0, 0>>, <<0, 0>>, <<0, 0>>, <<0, 0>>
    >>,
    <<
      <<-8, 0>>, <<-7, 0>>, <<-5, 0>>, <<-6, 0>>, <<-6, 0>>, <<0, 0>>, <<0, 0>>,
      <<-4, 0>>, <<-4, 0>>, <<-1, 0>>, <<0, 0>>, <<1, 1>>, <<0, 2>>, <<1, 1>>,
      <<0, 0>>, <<0, 2>>, <<3, 2>>, <<3, 2>>, <<4, 1>>, <<4, 2>>, <<2, 0>>,
      <<2, 0>>, <<2, 0>>, <<1, 0>>, <<0, 0>>, <<0, 0>>, <<0, 0>>, <<0, 0>>
    >>,
    <<
      <<-12, 6>>, <<-12, 18>>, <<0, 0>>, <<0, 0>>, <<0, 0>>, <<0, 0>>, <<0, 0>>,
      <<0, 0>>, <<0, 0>>, <<0, 0>>, <<0, 0>>, <<0, 0>>, <<0, 0>>, <<0, 0>>,
      <<0, 0>>, <<0, 0>>, <<0, 0>>, <<0, 0>>, <<0, 0>>, <<0, 0>>, <<0, 0>>,
      <<0, 0>>, <<0, 0>>, <<0, 0>>, <<0, 0>>, <<0, 0>>, <<0, 0>>, <<0, 0>>
    >>,
    <<
      <<0, 0>>, <<12, -1>>, <<3, -7>>, <<-1, -11>>, <<-10, -5>>, <<-13, -6>>, <<2, 4>>,
      <<3, 16>>, <<5, 11>>, <<0, 0>>, <<0, 0>>, <<0, 0>>, <<0, 0>>, <<0, 0>>,
      <<0, 0>>, <<0, 0>>, <<0, 0>>, <<0, 0>>, <<0, 0>>, <<0, 0>>, <<0, 0>>,
      <<0, 0>>, <<0, 0>>, <<0, 0>>, <<0, 0>>, <<0, 0>>, <<0, 0>>, <<0, 0>>
    >>
  >>

\* ------------------------------------------------------------ fiddler_base
Squares == 0..63

file(sq) == sq % 8

rank(sq) == sq \div 8

SquareAt(r, f) == 8 * r + f

\* Square::opposite: the same file on the mirrored rank (A1 <-> A8), the
\* square as the other player sees it.
opposite(sq) == SquareAt(7 - rank(sq), file(sq))

Colors == {"White", "Black"}

\* !color
Not(color) == IF color = "White" THEN "Black" ELSE "White"

\* Color::pawn_direction(): the index step of a pawn push.
pawn_direction(color) == IF color = "White" THEN 8 ELSE -8

\* Piece::ALL, in the order the tables' rows are written in.
Piece_ALL == <<"Knight", "Bishop", "Rook", "Queen", "Pawn", "King">>

Pieces == {Piece_ALL[i] : i \in 1..Len(Piece_ALL)}

None == "None"

\* The order the doc comment of Pst gives for the outer index.
Pst_documented_order == <<"Pawn", "Knight", "Bishop", "Rook", "Queen", "King">>

\* Variant: kinds numbered in the doc comment's order.
usize_documented(pt) ==
  (CHOOSE i \in 1..Len(Pst_documented_order) : Pst_documented_order[i] = pt) - 1

\* pt as usize
usize(pt) == (CHOOSE i \in 1..Len(Piece_ALL) : Piece_ALL[i] = pt) - 1

\* Board: the per-colour and per-kind square sets, the player to move, the
\* king squares, the en-passant square (a set of at most one square) and the
\* castling rights.
\* board[color] is board.sides[color], board[pt] is board.pieces[pt].
type_at_square(board, sq) ==
  IF \E pt \in Pieces : sq \in board.pieces[pt]
    THEN CHOOSE pt \in Pieces : sq \in board.pieces[pt]
    ELSE None

occupancy(board) == board.sides["White"] \cup board.sides["Black"]

\* The iteration order of a Bitboard: ascending square index.
RECURSIVE Ascending(_)
Ascending(S) ==
  IF S = {} THEN <<>>
  ELSE LET lo == CHOOSE x \in S : \A y \in S : x <= y
       IN  <<lo>> \o Ascending(S \ {lo})

\* Move: origin, destination, promotion kind (or None), en-passant and castle
\* flags.
Move(from, to, promo, ep, castle) ==
  [from_square |-> from, to_square |-> to, promote_type |-> promo,
   en_passant |-> ep, castle |-> castle]

OnBoard(r, f) == r \in 0..7 /\ f \in 0..7

Jumps(sq, steps) ==
  {SquareAt(rank(sq) + d[1], file(sq) + d[2]) :
     d \in {e \in steps : OnBoard(rank(sq) + e[1], file(sq) + e[2])}}

KnightSteps ==
  {<<1, 2>>, <<2, 1>>, <<-1, 2>>, <<-2, 1>>, <<1, -2>>, <<2, -1>>, <<-1, -2>>, <<-2, -1>>}

KingSteps ==
  {<<1, 0>>, <<1, 1>>, <<0, 1>>, <<-1, 1>>, <<-1, 0>>, <<-1, -1>>, <<0, -1>>, <<1, -1>>}

RookSteps == {<<1, 0>>, <<-1, 0>>, <<0, 1>>, <<0, -1>>}

BishopSteps == {<<1, 1>>, <<1, -1>>, <<-1, 1>>, <<-1, -1>>}

\* movegen::KNIGHT_MOVES, KING_MOVES, PAWN_ATTACKS
KNIGHT_MOVES == [sq \in Squares |-> Jumps(sq, KnightSteps)]

KING_MOVES == [sq \in Squares |-> Jumps(sq, KingSteps)]

PAWN_ATTACKS ==
  [color \in Colors |->
     [sq \in Squares |->
        Jumps(sq, IF color = "White" THEN {<<1, 1>>, <<1, -1>>} ELSE {<<-1, 1>>, <<-1, -1>>})]]

\* The squares seen from (r, f) along the step d: every empty square up to and
\* including the first occupied one.
RECURSIVE Ray(_, _, _, _)
Ray(occ, r, f, d) ==
  IF ~OnBoard(r + d[1], f + d[2]) THEN {}
  ELSE LET nxt == SquareAt(r + d[1], f + d[2])
       IN  IF nxt \in occ THEN {nxt}
           ELSE {nxt} \cup Ray(occ, r + d[1], f + d[2], d)

Slide(occ, sq, steps) == UNION {Ray(occ, rank(sq), file(sq), d) : d \in steps}

\* MAGIC.rook_attacks and MAGIC.bishop_attacks
rook_attacks(occ, sq) == Slide(occ, sq, RookSteps)

bishop_attacks(occ, sq) == Slide(occ, sq, BishopSteps)

\* ------------------------------------------------------------------ Score
\* Score: a (midgame, endgame) pair.
Score_DRAW == <<0, 0>>

ScoreAdd(a, b) == <<a[1] + b[1], a[2] + b[2]>>

ScoreSub(a, b) == <<a[1] - b[1], a[2] - b[2]>>

ScoreNeg(a) == <<-a[1], -a[2]>>

\* `score += v` and `score -= v`, in the order the loops run them.
RECURSIVE Accumulate(_, _)
Accumulate(score, terms) ==
  IF terms = <<>> THEN score
  ELSE Accumulate(IF Head(terms).add THEN ScoreAdd(score, Head(terms).v)
                  ELSE ScoreSub(score, Head(terms).v),
                  Tail(terms))

Plus(v) == [add |-> TRUE, v |-> v]

Minus(v) == [add |-> FALSE, v |-> v]

RECURSIVE Flatten(_)
Flatten(seqs) == IF seqs = <<>> THEN <<>> ELSE Head(seqs) \o Flatten(Tail(seqs))

\* The result of a call that may panic.
Ok(score) == [panic |-> FALSE, score |-> score]

Panic == [panic |-> TRUE, score |-> Score_DRAW]

\* ------------------------------------------------- evaluate/pst.rs (PST)
\* Variant: the entries scaled to millipawns.
PstAt_millipawns(pt, sq) ==
  <<10 * PST[usize(pt) + 1][sq + 1][1], 10 * PST[usize(pt) + 1][sq + 1][2]>>

\* PST[pt as usize][sq as usize]
PstAt(pt, sq) == PST[usize(pt) + 1][sq + 1]

\* Variant: Black's squares looked up unmirrored.
evaluate_black_sq_raw(sq) == sq

\* evaluate: alt_sq = sq.opposite(), the square a Black piece is looked up at.
evaluate_black_sq(sq) == opposite(sq)

\* Variant: Black's values added instead of subtracted.
evaluate_terms_black_added(board, pt) ==
  LET w == Ascending(board.pieces[pt] \cap board.sides["White"])
      b == Ascending(board.pieces[pt] \cap board.sides["Black"])
  IN  [i \in 1..Len(w) |-> Plus(PstAt(pt, w[i]))]
      \o [i \in 1..Len(b) |-> Plus(PstAt(pt, evaluate_black_sq(b[i])))]

\* The body of the `for pt in Piece::ALL` loop of evaluate: White's squares
\* added at the raw square, then Black's subtracted at the opposite square.
evaluate_terms(board, pt) ==
  LET w == Ascending(board.pieces[pt] \cap board.sides["White"])
      b == Ascending(board.pieces[pt] \cap board.sides["Black"])
  IN  [i \in 1..Len(w) |-> Plus(PstAt(pt, w[i]))]
      \o [i \in 1..Len(b) |-> Minus(PstAt(pt, evaluate_black_sq(b[i])))]

evaluate(board) ==
  Accumulate(Score_DRAW,
             Flatten([i \in 1..Len(Piece_ALL) |-> evaluate_terms(board, Piece_ALL[i])]))

\* Variant: the raw square for both colours.
alt_raw(board, sq) == sq

\* delta: the squares as the mover sees them (from_alt, to_alt).
alt(board, sq) == IF board.player = "White" THEN sq ELSE opposite(sq)

\* delta: the kind that stands on the destination after the move.
end_type(board, m) ==
  IF m.promote_type # None THEN m.promote_type
  ELSE type_at_square(board, m.from_square)

\* Variant: the value at the destination alone, the origin's not taken away.
base_delta_without_origin(board, m) == PstAt(end_type(board, m), alt(board, m.to_square))

\* delta: PST[end_idx][to_idx] - PST[mover_idx][from_idx]
base_delta(board, m) ==
  LET mover_type == type_at_square(board, m.from_square)
  IN  ScoreSub(PstAt(end_type(board, m), alt(board, m.to_square)),
               PstAt(mover_type, alt(board, m.from_square)))

\* Variant: the captured piece looked up at to_alt, not at its opposite.
capture_term_unmirrored(board, m) ==
  IF m.to_square \in board.sides[Not(board.player)]
    THEN PstAt(type_at_square(board, m.to_square), alt(board, m.to_square))
    ELSE Score_DRAW

\* delta: the conventional-capture branch.
capture_term(board, m) ==
  IF m.to_square \in board.sides[Not(board.player)]
    THEN PstAt(type_at_square(board, m.to_square), opposite(alt(board, m.to_square)))
    ELSE Score_DRAW

\* Variant: the captured pawn looked up at the destination square.
en_passant_term_at_destination(board, m) ==
  IF m.en_passant
    THEN PstAt("Pawn", opposite(alt(board, m.to_square)))
    ELSE Score_DRAW

\* delta: the en-passant branch.
en_passant_term(board, m) ==
  IF m.en_passant
    THEN PstAt("Pawn", opposite(alt(board, m.to_square) - pawn_direction("White")))
    ELSE Score_DRAW

\* Square::A1, D1, H1, F1
A1 == 0

D1 == 3

H1 == 7

F1 == 5

\* Variant: the king-side rook squares for either castle.
castle_term_king_side_only(board, m) ==
  IF m.castle
    THEN ScoreSub(PstAt("Rook", F1), PstAt("Rook", H1))
    ELSE Score_DRAW

\* delta: the castle branch.
castle_term(board, m) ==
  IF m.castle
    THEN LET is_queen_castle == file(m.to_square) = 2
         IN  IF is_queen_castle
               THEN ScoreSub(PstAt("Rook", D1), PstAt("Rook", A1))
               ELSE ScoreSub(PstAt("Rook", F1), PstAt("Rook", H1))
    ELSE Score_DRAW

\* Variant: an empty origin read as a pawn instead of unwrapped.
delta_mover_defaults_to_pawn(board, m) ==
  Ok(ScoreAdd(ScoreAdd(ScoreAdd(
       IF type_at_square(board, m.from_square) = None
         THEN ScoreSub(PstAt(IF m.promote_type # None THEN m.promote_type ELSE "Pawn",
                             alt(board, m.to_square)),
                       PstAt("Pawn", alt(board, m.from_square)))
         ELSE base_delta(board, m),
       capture_term(board, m)), en_passant_term(board, m)), castle_term(board, m)))

\* delta(board, m): panics on the unwrap of the piece at the origin, and
\* otherwise returns the sum of the four terms.
delta(board, m) ==
  IF type_at_square(board, m.from_square) = None THEN Panic
  ELSE Ok(ScoreAdd(ScoreAdd(ScoreAdd(base_delta(board, m), capture_term(board, m)),
                            en_passant_term(board, m)),
                   castle_term(board, m)))

\* ------------------------------------- pst.rs (MIDGAME_VALUE, ENDGAME_VALUE)
\* Eval::centipawns: the Eval holding that many centipawns.
centipawns(x) == x

expand_table(centi_table) ==
  [piece_idx \in 1..Len(centi_table) |->
     [sq_idx \in 1..Len(centi_table[piece_idx]) |-> centipawns(centi_table[piece_idx][sq_idx])]]

MIDGAME_VALUE == expand_table(MIDGAME_CENTI)

ENDGAME_VALUE == expand_table(ENDGAME_CENTI)

\* (MIDGAME_VALUE[pt as usize][sq as usize], ENDGAME_VALUE[pt as usize][sq as usize])
ValueAt(pt, sq) == <<MIDGAME_VALUE[usize(pt) + 1][sq + 1], ENDGAME_VALUE[usize(pt) + 1][sq + 1]>>

pst_evaluate_terms(board, pt) ==
  LET w == Ascending(board.pieces[pt] \cap board.sides["White"])
      b == Ascending(board.pieces[pt] \cap board.sides["Black"])
  IN  [i \in 1..Len(w) |-> Plus(ValueAt(pt, w[i]))]
      \o [i \in 1..Len(b) |-> Minus(ValueAt(pt, opposite(b[i])))]

pst_evaluate(board) ==
  Accumulate(Score_DRAW,
             Flatten([i \in 1..Len(Piece_ALL) |-> pst_evaluate_terms(board, Piece_ALL[i])]))

pst_delta(board, m) ==
  LET from_sq == m.from_square
      to_sq == m.to_square
      mover_type == type_at_square(board, from_sq)
      end == IF m.promote_type # None THEN m.promote_type ELSE mover_type
      from_alt == IF board.player = "White" THEN from_sq ELSE opposite(from_sq)
      to_alt == IF board.player = "White" THEN to_sq ELSE opposite(to_sq)
      base == ScoreSub(ValueAt(end, to_alt), ValueAt(mover_type, from_alt))
      capture ==
        IF to_sq \in board.sides[Not(board.player)]
          THEN ValueAt(type_at_square(board, to_sq), opposite(to_alt))
          ELSE Score_DRAW
      en_passant ==
        IF m.en_passant
          THEN ValueAt("Pawn", opposite(to_alt - pawn_direction("White")))
          ELSE Score_DRAW
      castle ==
        IF m.castle
          THEN IF file(to_sq) = 2
                 THEN ScoreSub(ValueAt("Rook", D1), ValueAt("Rook", A1))
                 ELSE ScoreSub(ValueAt("Rook", F1), ValueAt("Rook", H1))
          ELSE Score_DRAW
  IN  IF mover_type = None THEN Panic
      ELSE Ok(ScoreAdd(ScoreAdd(ScoreAdd(base, capture), en_passant), castle))

\* ---------------------------------------------------- evaluate/mobility.rs
MAX_MOBILITY == 28

\* expand_attacks(&[...]): the literal pairs as Scores.
expand_attacks(vals) ==
  [pt_idx \in 1..Len(vals) |->
     [mobility_idx \in 1..MAX_MOBILITY |-> vals[pt_idx][mobility_idx]]]

ATTACKS_VALUE == expand_attacks(ATTACKS_LITERAL)

\* Variant: the last slot for every count past the table.
for_piece_clamped(pt, attacks) ==
  IF Cardinality(attacks) < MAX_MOBILITY
    THEN Ok(ATTACKS_VALUE[usize(pt) + 1][Cardinality(attacks) + 1])
    ELSE Ok(ATTACKS_VALUE[usize(pt) + 1][MAX_MOBILITY])

\* Variant: a table one slot short.
for_piece_short_table(pt, attacks) ==
  IF Cardinality(attacks) < MAX_MOBILITY - 1
    THEN Ok(ATTACKS_VALUE[usize(pt) + 1][Cardinality(attacks) + 1])
    ELSE Panic

\* for_piece(pt, attacks) = ATTACKS_VALUE[pt as usize][attacks.len() as usize]:
\* the entry, or the panic of an index past the array's MAX_MOBILITY slots.
for_piece(pt, attacks) ==
  IF Cardinality(attacks) < MAX_MOBILITY
    THEN Ok(ATTACKS_VALUE[usize(pt) + 1][Cardinality(attacks) + 1])
    ELSE Panic

\* The squares whose attack sets the two queen loops score.
white_queen_squares(board) == board.pieces["Queen"] \cap board.sides["White"]

black_queen_squares(board) == board.pieces["Rook"] \cap board.sides["Black"]

\* evaluate(b) of the mobility module, loop by loop: the for_piece call of
\* every `score +=` and `score -=`.
mobility_terms(b) ==
  LET white == b.sides["White"]
      black == b.sides["Black"]
      not_white == Squares \ white
      not_black == Squares \ black
      occ == white \cup black
      knights == b.pieces["Knight"]
      bishops == b.pieces["Bishop"]
      rooks == b.pieces["Rook"]
      pawns == b.pieces["Pawn"]
      queen_attacks(sq) == rook_attacks(occ, sq) \cup bishop_attacks(occ, sq)
      wn == Ascending(knights \cap white)
      bn == Ascending(knights \cap black)
      wb == Ascending(bishops \cap white)
      bb == Ascending(bishops \cap black)
      wr == Ascending(rooks \cap white)
      br == Ascending(rooks \cap black)
      wq == Ascending(white_queen_squares(b))
      bq == Ascending(black_queen_squares(b))
      wp == Ascending(pawns \cap white)
      bp == Ascending(pawns \cap black)
  IN  [i \in 1..Len(wn) |-> Plus(for_piece("Knight", KNIGHT_MOVES[wn[i]] \cap not_white))]
      \o [i \in 1..Len(bn) |-> Minus(for_piece("Knight", KNIGHT_MOVES[bn[i]] \cap not_black))]
      \o [i \in 1..Len(wb) |-> Plus(for_piece("Bishop", bishop_attacks(occ, wb[i]) \cap not_white))]
      \o [i \in 1..Len(bb) |-> Minus(for_piece("Bishop", bishop_attacks(occ, bb[i]) \cap not_black))]
      \o [i \in 1..Len(wr) |-> Plus(for_piece("Rook", rook_attacks(occ, wr[i]) \cap not_white))]
      \o [i \in 1..Len(br) |-> Minus(for_piece("Rook", rook_attacks(occ, br[i]) \cap not_black))]
      \o [i \in 1..Len(wq) |-> Plus(for_piece("Queen", queen_attacks(wq[i]) \cap not_white))]
      \o [i \in 1..Len(bq) |-> Minus(for_piece("Queen", queen_attacks(bq[i]) \cap not_black))]
      \o [i \in 1..Len(wp) |-> Plus(for_piece("Pawn", PAWN_ATTACKS["White"][wp[i]] \cap not_white))]
      \o [i \in 1..Len(bp) |-> Minus(for_piece("Pawn", PAWN_ATTACKS["Black"][bp[i]] \cap not_black))]
      \o <<Plus(for_piece("King", KING_MOVES[b.king_sqs["White"]] \cap not_white)),
           Minus(for_piece("King", KING_MOVES[b.king_sqs["Black"]] \cap not_black))>>

\* The evaluation panics where a for_piece call does, and otherwise returns
\* the sum.
mobility_evaluate(b) ==
  LET terms == mobility_terms(b)
  IN  IF \E i \in 1..Len(terms) : terms[i].v.panic THEN Panic
      ELSE Ok(Accumulate(Score_DRAW,
                         [i \in 1..Len(terms) |-> [add |-> terms[i].add, v |-> terms[i].v.score]]))

\* ------------------------------------------------------- bitboard.rs
\* Bitboard(pub u64): the 64-bit mask as the set of its one-bits' positions,
\* bit 0 the least significant.
Bits == 0..63

\* The result of a Bitboard operator: the mask it returns, or a panic.
OkBits(bits) == [panic |-> FALSE, bits |-> bits]

PanicBits == [panic |-> TRUE, bits |-> {}]

\* Self(self.0 & rhs.0)
bitand(self, rhs) == OkBits(self \cap rhs)

\* Self(self.0 | rhs.0)
bitor(self, rhs) == OkBits(self \cup rhs)

\* Self(self.0 ^ rhs.0)
bitxor(self, rhs) == OkBits((self \ rhs) \cup (rhs \ self))

\* self.0 == rhs.0
eq(self, rhs) == self = rhs

\* u64 << n and u64 >> n for an amount n in 0..63.
shift_left(self, n) == {b + n : b \in self} \cap Bits

shift_right(self, n) == {b - n : b \in self} \cap Bits

\* Bitboard(self.0 << rhs), rhs an i8 or an i32. For rhs in 0..63 the shifted
\* mask. Otherwise the shift overflows: a build with overflow checks (debug)
\* panics, a build without them (release) shifts by rhs's low six bits; both
\* outcomes are kept.
shl(self, rhs) ==
  IF rhs \in Bits THEN {OkBits(shift_left(self, rhs))}
  ELSE {PanicBits, OkBits(shift_left(self, rhs % 64))}

\* Bitboard(self.0 >> rhs), likewise.
shr(self, rhs) ==
  IF rhs \in Bits THEN {OkBits(shift_right(self, rhs))}
  ELSE {PanicBits, OkBits(shift_right(self, rhs % 64))}

\* Bitboard(1 << sq.0)
Bitboard_from(sq) == OkBits(shift_left({0}, sq))

\* --------------------------------------- fiddler_base: moves on a board
PromoteTypes == {"Knight", "Bishop", "Rook", "Queen"}

\* The last rank and the pawns' home rank of a colour.
last_rank(color) == IF color = "White" THEN 7 ELSE 0

home_rank(color) == IF color = "White" THEN 1 ELSE 6

\* A pawn move from `from` to `to`: one move per promotion kind on the last
\* rank, and a plain move elsewhere.
PawnMoves(color, from, to) ==
  IF rank(to) = last_rank(color)
    THEN {Move(from, to, p, FALSE, FALSE) : p \in PromoteTypes}
    ELSE {Move(from, to, None, FALSE, FALSE)}

\* The pseudo-legal moves of the piece on `from` (castling apart); a king is
\* never captured.
piece_moves(board, from) ==
  LET us == board.player
      own == board.sides[us]
      enemy == board.sides[Not(us)]
      occ == own \cup enemy
      pt == type_at_square(board, from)
      free == Squares \ (own \cup {board.king_sqs[Not(us)]})
      plain(targets) == {Move(from, to, None, FALSE, FALSE) : to \in targets \cap free}
      one == from + pawn_direction(us)
      two == one + pawn_direction(us)
  IN  CASE pt = "Knight" -> plain(KNIGHT_MOVES[from])
        [] pt = "King" -> plain(KING_MOVES[from])
        [] pt = "Bishop" -> plain(bishop_attacks(occ, from))
        [] pt = "Rook" -> plain(rook_attacks(occ, from))
        [] pt = "Queen" -> plain(rook_attacks(occ, from) \cup bishop_attacks(occ, from))
        [] pt = "Pawn" ->
             (IF one \in Squares /\ one \notin occ THEN PawnMoves(us, from, one) ELSE {})
             \cup (IF rank(from) = home_rank(us) /\ one \notin occ /\ two \notin occ
                     THEN {Move(from, two, None, FALSE, FALSE)} ELSE {})
             \cup UNION {PawnMoves(us, from, to) :
                           to \in PAWN_ATTACKS[us][from] \cap enemy \cap free}
             \cup {Move(from, to, None, TRUE, FALSE) :
                     to \in PAWN_ATTACKS[us][from] \cap board.en_passant_square}

\* Castling: the right is held, king and rook stand on their home squares and
\* the squares between them are empty.
castle_moves(board) ==
  LET us == board.player
      r == IF us = "White" THEN 0 ELSE 7
      occ == occupancy(board)
      own_rooks == board.pieces["Rook"] \cap board.sides[us]
      side == IF us = "White" THEN "W" ELSE "B"
  IN  IF board.king_sqs[us] # SquareAt(r, 4) THEN {}
      ELSE (IF <<side, "K">> \in board.castle_rights
               /\ SquareAt(r, 7) \in own_rooks
               /\ {SquareAt(r, 5), SquareAt(r, 6)} \cap occ = {}
              THEN {Move(SquareAt(r, 4), SquareAt(r, 6), None, FALSE, TRUE)} ELSE {})
           \cup
           (IF <<side, "Q">> \in board.castle_rights
               /\ SquareAt(r, 0) \in own_rooks
               /\ {SquareAt(r, 1), SquareAt(r, 2), SquareAt(r, 3)} \cap occ = {}
              THEN {Move(SquareAt(r, 4), SquareAt(r, 2), None, FALSE, TRUE)} ELSE {})

\* get_moves: every pseudo-legal move of the player to move.
get_moves(board) ==
  UNION {piece_moves(board, from) : from \in board.sides[board.player]}
  \cup castle_moves(board)

\* Board::make_move: the board after m.
make_move(board, m) ==
  LET us == board.player
      them == Not(us)
      from == m.from_square
      to == m.to_square
      mover == type_at_square(board, from)
      ended == IF m.promote_type # None THEN m.promote_type ELSE mover
      captured ==
        IF m.en_passant THEN {to - pawn_direction(us)}
        ELSE IF to \in board.sides[them] THEN {to}
        ELSE {}
      r == rank(from)
      rook_from == IF ~m.castle THEN {} ELSE IF file(to) = 2 THEN {SquareAt(r, 0)} ELSE {SquareAt(r, 7)}
      rook_to == IF ~m.castle THEN {} ELSE IF file(to) = 2 THEN {SquareAt(r, 3)} ELSE {SquareAt(r, 5)}
      gone == {from} \cup captured \cup rook_from
      lost_rights ==
        (IF mover = "King" THEN {<<IF us = "White" THEN "W" ELSE "B", s>> : s \in {"K", "Q"}} ELSE {})
        \cup (IF 0 \in {from, to} THEN {<<"W", "Q">>} ELSE {})
        \cup (IF 7 \in {from, to} THEN {<<"W", "K">>} ELSE {})
        \cup (IF 56 \in {from, to} THEN {<<"B", "Q">>} ELSE {})
        \cup (IF 63 \in {from, to} THEN {<<"B", "K">>} ELSE {})
  IN  [sides |->
         [c \in Colors |->
            IF c = us THEN ((board.sides[us] \ gone) \cup {to}) \cup rook_to
            ELSE board.sides[them] \ captured],
       pieces |->
         [pt \in Pieces |->
            ((board.pieces[pt] \ gone)
               \cup (IF pt = ended THEN {to} ELSE {}))
               \cup (IF pt = "Rook" THEN rook_to ELSE {})],
       player |-> them,
       king_sqs |-> [c \in Colors |-> IF c = us /\ mover = "King" THEN to ELSE board.king_sqs[c]],
       en_passant_square |->
         IF mover = "Pawn" /\ to - from = 2 * pawn_direction(us)
           THEN {from + pawn_direction(us)} ELSE {},
       castle_rights |-> board.castle_rights \ lost_rights]

\* The colour-flipped, square-mirrored counterpart of a board and of a move.
MirrorSet(S) == {opposite(sq) : sq \in S}

Mirror(board) ==
  [sides |-> [c \in Colors |-> MirrorSet(board.sides[Not(c)])],
   pieces |-> [pt \in Pieces |-> MirrorSet(board.pieces[pt])],
   player |-> Not(board.player),
   king_sqs |-> [c \in Colors |-> opposite(board.king_sqs[Not(c)])],
   en_passant_square |-> MirrorSet(board.en_passant_square),
   castle_rights |->
     {<<IF right[1] = "W" THEN "B" ELSE "W", right[2]>> : right \in board.castle_rights}]

MirrorMove(m) ==
  Move(opposite(m.from_square), opposite(m.to_square), m.promote_type, m.en_passant, m.castle)

\* ------------------------------------------------------ starting boards
\* The standard starting position.
\* rnbqkbnr/pppppppp/8/8/8/8/PPPPPPPP/RNBQKBNR w KQkq - 0 1
START_POSITION ==
  [sides |-> [c \in Colors |-> IF c = "White"
       THEN {0, 1, 2, 3, 4, 5, 6, 7, 8, 9, 10, 11, 12, 13, 14, 15}
       ELSE {48, 49, 50, 51, 52, 53, 54, 55, 56, 57, 58, 59, 60, 61, 62, 63}],
   pieces |-> [pt \in Pieces |->
       CASE pt = "Knight" -> {1, 6, 57, 62}
         [] pt = "Bishop" -> {2, 5, 58, 61}
         [] pt = "Rook" -> {0, 7, 56, 63}
         [] pt = "Queen" -> {3, 59}
         [] pt = "Pawn" -> {8, 9, 10, 11, 12, 13, 14, 15, 48, 49, 50, 51, 52, 53, 54, 55}
         [] pt = "King" -> {4, 60}],
   player |-> "White",
   king_sqs |-> [c \in Colors |-> IF c = "White" THEN 4 ELSE 60],
   en_passant_square |-> {},
   castle_rights |-> {<<"W", "K">>, <<"W", "Q">>, <<"B", "K">>, <<"B", "Q">>}]

\* tests::pst_delta_equals_base_result
\* r1bq1b1r/ppp2kpp/2n5/3np3/2B5/8/PPPP1PPP/RNBQK2R w KQ - 0 7
FEN_BASE_RESULT ==
  [sides |-> [c \in Colors |-> IF c = "White"
       THEN {0, 1, 2, 3, 4, 7, 8, 9, 10, 11, 13, 14, 15, 26}
       ELSE {35, 36, 42, 48, 49, 50, 53, 54, 55, 56, 58, 59, 61, 63}],
   pieces |-> [pt \in Pieces |->
       CASE pt = "Knight" -> {1, 35, 42}
         [] pt = "Bishop" -> {2, 26, 58, 61}
         [] pt = "Rook" -> {0, 7, 56, 63}
         [] pt = "Queen" -> {3, 59}
         [] pt = "Pawn" -> {8, 9, 10, 11, 13, 14, 15, 36, 48, 49, 50, 54, 55}
         [] pt = "King" -> {4, 53}],
   player |-> "White",
   king_sqs |-> [c \in Colors |-> IF c = "White" THEN 4 ELSE 53],
   en_passant_square |-> {},
   castle_rights |-> {<<"W", "K">>, <<"W", "Q">>}]

\* tests::delta_captures
\* r1bq1b1r/ppp2kpp/2n5/3n4/2BPp3/2P5/PP3PPP/RNBQK2R b KQ d3 0 8
FEN_CAPTURES ==
  [sides |-> [c \in Colors |-> IF c = "White"
       THEN {0, 1, 2, 3, 4, 7, 8, 9, 13, 14, 15, 18, 26, 27}
       ELSE {28, 35, 42, 48, 49, 50, 53, 54, 55, 56, 58, 59, 61, 63}],
   pieces |-> [pt \in Pieces |->
       CASE pt = "Knight" -> {1, 35, 42}
         [] pt = "Bishop" -> {2, 26, 58, 61}
         [] pt = "Rook" -> {0, 7, 56, 63}
         [] pt = "Queen" -> {3, 59}
         [] pt = "Pawn" -> {8, 9, 13, 14, 15, 18, 27, 28, 48, 49, 50, 54, 55}
         [] pt = "King" -> {4, 53}],
   player |-> "Black",
   king_sqs |-> [c \in Colors |-> IF c = "White" THEN 4 ELSE 53],
   en_passant_square |-> {19},
   castle_rights |-> {<<"W", "K">>, <<"W", "Q">>}]

\* tests::delta_promotion
\* r4bkr/pPpq2pp/2n1b3/3n4/2BPp3/2P5/1P3PPP/RNBQK2R w KQ - 1 13
FEN_PROMOTION ==
  [sides |-> [c \in Colors |-> IF c = "White"
       THEN {0, 1, 2, 3, 4, 7, 9, 13, 14, 15, 18, 26, 27, 49}
       ELSE {28, 35, 42, 44, 48, 50, 51, 54, 55, 56, 61, 62, 63}],
   pieces |-> [pt \in Pieces |->
       CASE pt = "Knight" -> {1, 35, 42}
         [] pt = "Bishop" -> {2, 26, 44, 61}
         [] pt = "Rook" -> {0, 7, 56, 63}
         [] pt = "Queen" -> {3, 51}
         [] pt = "Pawn" -> {9, 13, 14, 15, 18, 27, 28, 48, 49, 50, 54, 55}
         [] pt = "King" -> {4, 62}],
   player |-> "White",
   king_sqs |-> [c \in Colors |-> IF c = "White" THEN 4 ELSE 62],
   en_passant_square |-> {},
   castle_rights |-> {<<"W", "K">>, <<"W", "Q">>}]

\* A position in which both sides may castle to either side.
\* r3k2r/ppp1pppp/2nq4/3p4/3P4/2NQ4/PPP1PPPP/R3K2R w KQkq - 0 1
FEN_CASTLES ==
  [sides |-> [c \in Colors |-> IF c = "White"
       THEN {0, 4, 7, 8, 9, 10, 12, 13, 14, 15, 18, 19, 27}
       ELSE {35, 42, 43, 48, 49, 50, 52, 53, 54, 55, 56, 60, 63}],
   pieces |-> [pt \in Pieces |->
       CASE pt = "Knight" -> {18, 42}
         [] pt = "Bishop" -> {}
         [] pt = "Rook" -> {0, 7, 56, 63}
         [] pt = "Queen" -> {19, 43}
         [] pt = "Pawn" -> {8, 9, 10, 12, 13, 14, 15, 27, 35, 48, 49, 50, 52, 53, 54, 55}
         [] pt = "King" -> {4, 60}],
   player |-> "White",
   king_sqs |-> [c \in Colors |-> IF c = "White" THEN 4 ELSE 60],
   en_passant_square |-> {},
   castle_rights |-> {<<"W", "K">>, <<"W", "Q">>, <<"B", "K">>, <<"B", "Q">>}]

\* A queen in the centre of an open board.
\* 4k3/8/8/8/3Q4/8/8/4K3 w - - 0 1
FEN_OPEN_QUEEN ==
  [sides |-> [c \in Colors |-> IF c = "White"
       THEN {4, 27}
       ELSE {60}],
   pieces |-> [pt \in Pieces |->
       CASE pt = "Knight" -> {}
         [] pt = "Bishop" -> {}
         [] pt = "Rook" -> {}
         [] pt = "Queen" -> {27}
         [] pt = "Pawn" -> {}
         [] pt = "King" -> {4, 60}],
   player |-> "White",
   king_sqs |-> [c \in Colors |-> IF c = "White" THEN 4 ELSE 60],
   en_passant_square |-> {},
   castle_rights |-> {}]

\* ------------------------------------------------- direct calls, workers
\* No direct call made yet.
LibIdle ==
  [op |-> "idle", pt |-> "Pawn", attacks |-> {}, lhs |-> {}, rhs |-> {}, amount |-> 0,
   panic |-> FALSE, score |-> Score_DRAW, bits |-> {}, eq |-> FALSE]

\* The tables as the process holds them: PST and ATTACKS_VALUE.
ConstTables == [pst |-> PST, attacks |-> ATTACKS_VALUE]

NumWorkers == 2

Workers == 1..NumWorkers

\* Every worker has a board of its own.
WorkerBoards == <<FEN_CAPTURES, START_POSITION, FEN_CASTLES, FEN_BASE_RESULT>>

WorkerBoard(w) == WorkerBoards[((w - 1) % Len(WorkerBoards)) + 1]

\* A worker between calls: its board, no call running, nothing returned.
WorkerIdle(b) ==
  [board |-> b, call |-> "idle", mv |-> Move(0, 0, None, FALSE, FALSE), pos |-> 0,
   acc |-> Score_DRAW, panicked |-> FALSE, returned |-> "none", out |-> Ok(Score_DRAW)]

WorkersIdle == [w \in Workers |-> WorkerIdle(WorkerBoard(w))]

\* ------------------------------------------------------------ the program
VARIABLES
  board,       \* the current Board
  ply,         \* moves made since the starting board
  op,          \* the last call: "init", "make_move", "delta", "evaluate_pst", "evaluate_mobility"
  prev,        \* the board the last call was given
  m,           \* the Move the last call was given
  res,         \* what evaluate/pst.rs returned (evaluate or delta)
  res_old,     \* what pst.rs returned (pst_evaluate or pst_delta)
  new_eval,    \* delta_helper's new_eval: orig_eval + delta or orig_eval - delta
  delta_eval,  \* the same sum on pst.rs's values
  mob,         \* what the mobility evaluate returned
  lib,         \* the last direct call of for_piece or of a Bitboard operator
  tables,      \* the constant tables every evaluator reads
  wk           \* the concurrent workers: each one's board, call and running score

rest == <<lib, tables, wk>>

vars == <<board, ply, op, prev, m, res, res_old, new_eval, delta_eval, mob, lib, tables, wk>>

harness == <<board, ply, op, prev, m, res, res_old, new_eval, delta_eval, mob>>

NoMove == Move(0, 0, None, FALSE, FALSE)

BaseBoards ==
  {START_POSITION, FEN_BASE_RESULT, FEN_CAPTURES, FEN_PROMOTION, FEN_CASTLES, FEN_OPEN_QUEEN}

StartBoards == BaseBoards \cup {Mirror(b) : b \in BaseBoards}

\* Moves a caller may hand to delta without having generated them: any
\* promotion kind from a few origins, and flagged moves from empty origins.
ProbeFrom == {0, 12, 28, 52, 56}

ProbeTo == {20, 44}

ProbeMoves(b) ==
  {Move(from, to, promo, FALSE, FALSE) :
     from \in ProbeFrom, to \in ProbeTo, promo \in Pieces \cup {None}}
  \cup {Move(from, to, None, ep, castle) :
          from \in ProbeFrom \ occupancy(b), to \in ProbeTo, ep \in BOOLEAN, castle \in BOOLEAN}

Init ==
  /\ board \in StartBoards
  /\ ply = 0
  /\ op = "init"
  /\ prev = board
  /\ m = NoMove
  /\ res = Ok(Score_DRAW)
  /\ res_old = Ok(Score_DRAW)
  /\ new_eval = Score_DRAW
  /\ delta_eval = Score_DRAW
  /\ mob = Ok(Score_DRAW)
  /\ lib = LibIdle
  /\ tables = ConstTables
  /\ wk = WorkersIdle

\* The contract of delta: new = old + delta for White, old - delta for Black.
Apply(player, old, d) == IF player = "White" THEN ScoreAdd(old, d) ELSE ScoreSub(old, d)

\* One round of tests::delta_helper's loop: the evaluation predicted from
\* delta, then the move made on the board.
MakeMove ==
  /\ ply < MaxPly
  /\ \E mv \in get_moves(board) :
       /\ m' = mv
       /\ res' = delta(board, mv)
       /\ res_old' = pst_delta(board, mv)
       /\ new_eval' = Apply(board.player, evaluate(board), delta(board, mv).score)
       /\ delta_eval' = Apply(board.player, pst_evaluate(board), pst_delta(board, mv).score)
       /\ board' = make_move(board, mv)
  /\ prev' = board
  /\ ply' = ply + 1
  /\ op' = "make_move"
  /\ mob' = Ok(Score_DRAW)
  /\ UNCHANGED rest

\* delta(board, m) and pst_delta(board, m) on a move the caller made up.
CallDelta ==
  /\ ply = 0
  /\ \E mv \in ProbeMoves(board) :
       /\ m' = mv
       /\ res' = delta(board, mv)
       /\ res_old' = pst_delta(board, mv)
  /\ prev' = board
  /\ op' = "delta"
  /\ new_eval' = Score_DRAW
  /\ delta_eval' = Score_DRAW
  /\ mob' = Ok(Score_DRAW)
  /\ UNCHANGED <<board, ply>>
  /\ UNCHANGED rest

\* evaluate(board) and pst_evaluate(board).
EvaluatePst ==
  /\ res' = Ok(evaluate(board))
  /\ res_old' = Ok(pst_evaluate(board))
  /\ prev' = board
  /\ m' = NoMove
  /\ op' = "evaluate_pst"
  /\ new_eval' = Score_DRAW
  /\ delta_eval' = Score_DRAW
  /\ mob' = Ok(Score_DRAW)
  /\ UNCHANGED <<board, ply>>
  /\ UNCHANGED rest

\* The mobility module's evaluate(board).
EvaluateMobility ==
  /\ mob' = mobility_evaluate(board)
  /\ prev' = board
  /\ m' = NoMove
  /\ op' = "evaluate_mobility"
  /\ res' = Ok(Score_DRAW)
  /\ res_old' = Ok(Score_DRAW)
  /\ new_eval' = Score_DRAW
  /\ delta_eval' = Score_DRAW
  /\ UNCHANGED <<board, ply>>
  /\ UNCHANGED rest

Next == MakeMove \/ CallDelta \/ EvaluatePst \/ EvaluateMobility

Spec == Init /\ [][Next]_vars

TypeOK ==
  /\ ply \in 0..MaxPly
  /\ board.sides["White"] \cap board.sides["Black"] = {}
  /\ \A p1, p2 \in Pieces : p1 # p2 => board.pieces[p1] \cap board.pieces[p2] = {}
  /\ UNION {board.pieces[pt] : pt \in Pieces} = occupancy(board)
  /\ \A c \in Colors : board.pieces["King"] \cap board.sides[c] = {board.king_sqs[c]}
  /\ Mirror(Mirror(board)) = board

\* ------------------------------------------- for_piece and Bitboard, called directly
\* Attack sets of every cardinality from 0 to 30, and of 63 and 64 squares.
AttackSets == {0..(c - 1) : c \in (0..30) \cup {63, 64}}

\* Masks the operators are called on.
SampleMasks == {{0}, {0, 63}, {7, 28, 35}}

\* The i8 and i32 amounts around the edges of 0..63 and of the type.
SampleI8 == {-128, -65, -64, -1, 0, 1, 7, 8, 63, 64, 65, 127}

SampleI32 == {-2147483647 - 1, -2147483647, -65, -64, -1, 0, 1, 31, 32, 63, 64, 65, 2147483647}

BitboardOps ==
  {"bitand", "bitor", "bitxor", "eq", "shl_i8", "shr_i8", "shl_i32", "shr_i32", "from"}

BitCall(name, self, rhs, amount, out) ==
  [LibIdle EXCEPT !.op = name, !.lhs = self, !.rhs = rhs, !.amount = amount,
                  !.panic = out.panic, !.bits = out.bits]

CallForPiece ==
  /\ \E pt \in Pieces, attacks \in AttackSets :
       lib' = [LibIdle EXCEPT !.op = "for_piece", !.pt = pt, !.attacks = attacks,
                              !.panic = for_piece(pt, attacks).panic,
                              !.score = for_piece(pt, attacks).score]
  /\ UNCHANGED <<harness, tables, wk>>

CallBitAnd ==
  /\ \E self \in SampleMasks, rhs \in SampleMasks :
       lib' = BitCall("bitand", self, rhs, 0, bitand(self, rhs))
  /\ UNCHANGED <<harness, tables, wk>>

CallBitOr ==
  /\ \E self \in SampleMasks, rhs \in SampleMasks :
       lib' = BitCall("bitor", self, rhs, 0, bitor(self, rhs))
  /\ UNCHANGED <<harness, tables, wk>>

CallBitXor ==
  /\ \E self \in SampleMasks, rhs \in SampleMasks :
       lib' = BitCall("bitxor", self, rhs, 0, bitxor(self, rhs))
  /\ UNCHANGED <<harness, tables, wk>>

CallEq ==
  /\ \E self \in SampleMasks, rhs \in SampleMasks :
       lib' = [LibIdle EXCEPT !.op = "eq", !.lhs = self, !.rhs = rhs, !.eq = eq(self, rhs)]
  /\ UNCHANGED <<harness, tables, wk>>

CallShlI8 ==
  /\ \E self \in SampleMasks, rhs \in SampleI8 : \E out \in shl(self, rhs) :
       lib' = BitCall("shl_i8", self, {}, rhs, out)
  /\ UNCHANGED <<harness, tables, wk>>

CallShrI8 ==
  /\ \E self \in SampleMasks, rhs \in SampleI8 : \E out \in shr(self, rhs) :
       lib' = BitCall("shr_i8", self, {}, rhs, out)
  /\ UNCHANGED <<harness, tables, wk>>

CallShlI32 ==
  /\ \E self \in SampleMasks, rhs \in SampleI32 : \E out \in shl(self, rhs) :
       lib' = BitCall("shl_i32", self, {}, rhs, out)
  /\ UNCHANGED <<harness, tables, wk>>

CallShrI32 ==
  /\ \E self \in SampleMasks, rhs \in SampleI32 : \E out \in shr(self, rhs) :
       lib' = BitCall("shr_i32", self, {}, rhs, out)
  /\ UNCHANGED <<harness, tables, wk>>

CallFrom ==
  /\ \E sq \in Squares : lib' = BitCall("from", {}, {}, sq, Bitboard_from(sq))
  /\ UNCHANGED <<harness, tables, wk>>

InitLib == Init /\ board = START_POSITION

NextLib ==
  \/ CallForPiece
  \/ CallBitAnd
  \/ CallBitOr
  \/ CallBitXor
  \/ CallEq
  \/ CallShlI8
  \/ CallShrI8
  \/ CallShlI32
  \/ CallShrI32
  \/ CallFrom

SpecLib == InitLib /\ [][NextLib]_vars

\* ------------------------------------------------- concurrent evaluators
\* Variant: every worker handed the first worker's board.
worker_board_shared(w) == wk[1].board

\* The `board: &Board` a worker passes to its calls: its own.
worker_board(w) == wk[w].board

\* The moves a worker asks the delta of.
WorkerMoves(b) ==
  {mv \in get_moves(b) : mv.en_passant \/ mv.castle \/ mv.to_square \in b.sides[Not(b.player)]
                           \/ mv.from_square \in {12, 52}}

OkTerms(terms) == [i \in 1..Len(terms) |-> [add |-> terms[i].add, v |-> Ok(terms[i].v)]]

\* A sequence cut into pieces of at most n elements.
RECURSIVE Pieces_of(_, _)
Pieces_of(seq, n) ==
  IF Len(seq) <= n THEN <<seq>>
  ELSE <<SubSeq(seq, 1, n)>> \o Pieces_of(SubSeq(seq, n + 1, Len(seq)), n)

\* What a call does between two points at which another worker may run:
\* evaluate one round of its `for pt in Piece::ALL` loop, delta one of its four
\* terms, the mobility evaluate eight for_piece lookups.
Steps(b, call, mv) ==
  CASE call = "evaluate_pst" ->
         [i \in 1..Len(Piece_ALL) |-> OkTerms(evaluate_terms(b, Piece_ALL[i]))]
    [] call = "pst_delta" ->
         IF delta(b, mv).panic THEN <<<<Plus(Panic)>>>>
         ELSE <<OkTerms(<<Plus(base_delta(b, mv))>>), OkTerms(<<Plus(capture_term(b, mv))>>),
                OkTerms(<<Plus(en_passant_term(b, mv))>>), OkTerms(<<Plus(castle_term(b, mv))>>)>>
    [] call = "evaluate_mobility" -> Pieces_of(mobility_terms(b), 8)

\* The call run alone, from start to end.
RunAlone(b, call, mv) ==
  CASE call = "evaluate_pst" -> Ok(evaluate(b))
    [] call = "pst_delta" -> delta(b, mv)
    [] call = "evaluate_mobility" -> mobility_evaluate(b)

Begin(w, call, mv) ==
  /\ wk[w].call = "idle"
  /\ wk' = [wk EXCEPT ![w] = [@ EXCEPT !.call = call, !.mv = mv, !.pos = 0, !.acc = Score_DRAW,
                                       !.panicked = FALSE, !.returned = "none",
                                       !.out = Ok(Score_DRAW)]]
  /\ UNCHANGED <<harness, lib, tables>>

WorkerEvaluatePst(w) == Begin(w, "evaluate_pst", NoMove)

WorkerPstDelta(w) == \E mv \in WorkerMoves(worker_board(w)) : Begin(w, "pst_delta", mv)

WorkerEvaluateMobility(w) == Begin(w, "evaluate_mobility", NoMove)

\* The next step of the worker's call, on the worker's own running score.
WorkerStep(w) ==
  LET steps == Steps(worker_board(w), wk[w].call, wk[w].mv)
  IN  /\ wk[w].call # "idle"
      /\ ~wk[w].panicked
      /\ wk[w].pos < Len(steps)
      /\ LET terms == steps[wk[w].pos + 1]
         IN  wk' = [wk EXCEPT ![w] =
                      IF \E i \in 1..Len(terms) : terms[i].v.panic
                        THEN [@ EXCEPT !.panicked = TRUE]
                        ELSE [@ EXCEPT !.pos = @ + 1,
                                       !.acc = Accumulate(@, [i \in 1..Len(terms) |->
                                                 [add |-> terms[i].add, v |-> terms[i].v.score]])]]
      /\ UNCHANGED <<harness, lib, tables>>

\* The call returns its running score, or has panicked.
WorkerReturn(w) ==
  /\ wk[w].call # "idle"
  /\ wk[w].panicked \/ wk[w].pos = Len(Steps(worker_board(w), wk[w].call, wk[w].mv))
  /\ wk' = [wk EXCEPT ![w] = [@ EXCEPT !.call = "idle", !.returned = wk[w].call, !.pos = 0,
                                       !.acc = Score_DRAW, !.panicked = FALSE,
                                       !.out = IF wk[w].panicked THEN Panic ELSE Ok(wk[w].acc)]]
  /\ UNCHANGED <<harness, lib, tables>>

InitWorkers == Init /\ board = START_POSITION

NextWorkers ==
  \E w \in Workers :
    \/ WorkerEvaluatePst(w)
    \/ WorkerPstDelta(w)
    \/ WorkerEvaluateMobility(w)
    \/ WorkerStep(w)
    \/ WorkerReturn(w)

SpecWorkers == InitWorkers /\ [][NextWorkers]_vars

\* ----------------------------------------------------------------- claims
\* The side that made the last move, and the side it moved against.
Mover == prev.player

Opponent == Not(prev.player)

Moved == op = "make_move"

IsCapture == m.to_square \in prev.sides[Opponent]

\* C1: after an ordinary move, a capture or a promotion (en passant and
\* castling apart), the evaluation of the new board is the old evaluation plus
\* delta for a White mover and minus delta for a Black mover, in both
\* components, for evaluate/delta and for pst_evaluate/pst_delta alike.
C1_DeltaMatchesOrdinaryMoves ==
  (Moved /\ ~m.en_passant /\ ~m.castle) =>
    /\ ~res.panic
    /\ new_eval = evaluate(board)
    /\ ~res_old.panic
    /\ delta_eval = pst_evaluate(board)

\* A Black pawn has just captured and promoted, and the evaluation changed.
C1_Witness ==
  /\ Moved /\ ~m.en_passant /\ ~m.castle
  /\ Mover = "Black"
  /\ IsCapture
  /\ m.promote_type = "Knight"
  /\ new_eval # evaluate(prev)

\* The square an en-passant capture empties: the one square the opponent lost.
EnPassantVictims == prev.sides[Opponent] \ board.sides[Opponent]

\* A square as its owner's side of the table sees it.
MirroredFor(color, sq) == IF color = "White" THEN sq ELSE opposite(sq)

\* C2: for an en-passant capture by either colour, delta is the pawn's own
\* change plus the captured pawn's table value, taken at the square directly
\* behind the destination and mirrored for the captured side, and the
\* evaluation of the new board is the old one plus (White) or minus (Black)
\* that delta.
C2_EnPassantDeltaMatches ==
  (Moved /\ m.en_passant) =>
    /\ ~res.panic
    /\ new_eval = evaluate(board)
    /\ ~res_old.panic
    /\ delta_eval = pst_evaluate(board)
    /\ EnPassantVictims = {m.to_square - pawn_direction(Mover)}
    /\ \A victim \in EnPassantVictims :
         /\ res.score =
              ScoreAdd(ScoreSub(PstAt("Pawn", MirroredFor(Mover, m.to_square)),
                                PstAt("Pawn", MirroredFor(Mover, m.from_square))),
                       PstAt("Pawn", MirroredFor(Opponent, victim)))
         /\ res_old.score =
              ScoreAdd(ScoreSub(ValueAt("Pawn", MirroredFor(Mover, m.to_square)),
                                ValueAt("Pawn", MirroredFor(Mover, m.from_square))),
                       ValueAt("Pawn", MirroredFor(Opponent, victim)))

\* Black has just captured en passant (tests::delta_captures, e4 takes d3).
C2_Witness ==
  /\ Moved /\ m.en_passant
  /\ Mover = "Black"
  /\ prev = FEN_CAPTURES
  /\ Cardinality(EnPassantVictims) = 1
  /\ new_eval # evaluate(prev)

\* The squares the mover's rook left and reached in the last move.
RookLeft == (prev.pieces["Rook"] \cap prev.sides[Mover]) \ board.pieces["Rook"]

RookReached == (board.pieces["Rook"] \cap board.sides[Mover]) \ prev.pieces["Rook"]

C5_PstMirrorSymmetry ==
  (op = "evaluate_pst") =>
    /\ evaluate(Mirror(board)) = ScoreNeg(res.score)
    /\ pst_evaluate(Mirror(board)) = ScoreNeg(res_old.score)

\* A board that is not its own mirror image was evaluated to a non-zero Score.
C5_Witness ==
  /\ op = "evaluate_pst"
  /\ ply > 0
  /\ Mirror(board).sides # board.sides
  /\ res.score[1] # 0
  /\ res.score[2] # 0
  /\ res_old.score[1] # 0

\* C6: the mobility evaluation of the colour-flipped, square-mirrored board is
\* the exact negation of the board's, in both components.
C6_MobilityMirrorSymmetry ==
  (op = "evaluate_mobility") =>
    /\ ~mob.panic
    /\ mobility_evaluate(Mirror(board)) = Ok(ScoreNeg(mob.score))

\* The attack set of a piece of kind pt and colour color on sq.
AttackSet(b, pt, color, sq) ==
  CASE pt = "Knight" -> KNIGHT_MOVES[sq]
    [] pt = "Bishop" -> bishop_attacks(occupancy(b), sq)
    [] pt = "Rook" -> rook_attacks(occupancy(b), sq)
    [] pt = "Queen" -> rook_attacks(occupancy(b), sq) \cup bishop_attacks(occupancy(b), sq)
    [] pt = "Pawn" -> PAWN_ATTACKS[color][sq]
    [] pt = "King" -> KING_MOVES[sq]

\* The mobility term of the piece of kind pt and colour color on sq: the table
\* entry at the number of attacked squares its own side does not occupy.
MobilityTerm(b, pt, color, sq) ==
  ATTACKS_VALUE[usize(pt) + 1][Cardinality(AttackSet(b, pt, color, sq) \ b.sides[color]) + 1]

\* Every piece scored from the squares of its own kind, kings from king_sqs.
MobilityByKind(b) ==
  LET scanned == <<"Knight", "Bishop", "Rook", "Queen", "Pawn">>
      of(pt, color) == Ascending(b.pieces[pt] \cap b.sides[color])
      terms(pt) ==
        [i \in 1..Len(of(pt, "White")) |-> Plus(MobilityTerm(b, pt, "White", of(pt, "White")[i]))]
        \o [i \in 1..Len(of(pt, "Black")) |-> Minus(MobilityTerm(b, pt, "Black", of(pt, "Black")[i]))]
  IN  Accumulate(Score_DRAW,
                 Flatten([i \in 1..Len(scanned) |-> terms(scanned[i])])
                 \o <<Plus(MobilityTerm(b, "King", "White", b.king_sqs["White"])),
                      Minus(MobilityTerm(b, "King", "Black", b.king_sqs["Black"]))>>)

\* C7: the mobility evaluation is the sum, over every kind and every square of
\* that kind, of the piece's own mobility term (added for White, subtracted
\* for Black), plus one King term per side: a Black queen is scored from its
\* own square and a Black rook adds no Queen term.
C7_MobilityScoresEachKindFromItsSquares ==
  (op = "evaluate_mobility") => mob = Ok(MobilityByKind(board))

C9_EmptyOriginPanics ==
  (op = "delta" /\ type_at_square(prev, m.from_square) = None) =>
    /\ res.panic
    /\ res_old.panic

\* delta was called with an en-passant move from an empty square and panicked.
C9_Witness ==
  /\ op = "delta"
  /\ m.from_square \notin occupancy(prev)
  /\ m.en_passant
  /\ res.panic
  /\ res_old.panic

\* A promotion kind the move cannot carry on this board: the origin holds no
\* pawn, or the kind is Pawn or King.
InconsistentPromotion ==
  /\ m.promote_type # None
  /\ \/ type_at_square(prev, m.from_square) # "Pawn"
     \/ m.promote_type \in {"Pawn", "King"}

\* C10: delta and pst_delta panic on every move with an inconsistent
\* promotion kind.
C10_InconsistentPromotionPanics ==
  (op = "delta" /\ InconsistentPromotion) =>
    /\ res.panic
    /\ res_old.panic

\* The values an i16 holds.
I16 == -32768..32767

InI16(score) == score[1] \in I16 /\ score[2] \in I16

\* Every value `score` takes while the terms are added and subtracted in turn.
RECURSIVE Running(_, _)
Running(score, terms) ==
  IF terms = <<>> THEN <<score>>
  ELSE <<score>> \o Running(IF Head(terms).add THEN ScoreAdd(score, Head(terms).v)
                            ELSE ScoreSub(score, Head(terms).v),
                            Tail(terms))

\* The values evaluate(b) passes through.
EvaluateRunning(b) ==
  Running(Score_DRAW, Flatten([i \in 1..Len(Piece_ALL) |-> evaluate_terms(b, Piece_ALL[i])]))

\* The values delta(b, mv) passes through: the base difference and the sum
\* after each of the three branches, with the differences they add.
DeltaRunning(b, mv) ==
  <<base_delta(b, mv),
    capture_term(b, mv),
    ScoreAdd(base_delta(b, mv), capture_term(b, mv)),
    en_passant_term(b, mv),
    ScoreAdd(ScoreAdd(base_delta(b, mv), capture_term(b, mv)), en_passant_term(b, mv)),
    castle_term(b, mv),
    delta(b, mv).score>>

\* Thirty-two pieces and the at most six entries of one delta, each at the
\* largest magnitude of the table, stay inside an i16.
PstEntriesBounded ==
  \A pt \in Pieces, sq \in Squares, i \in 1..2 :
    /\ (32 + 6) * PstAt(pt, sq)[i] \in I16
    /\ (32 + 6) * (-PstAt(pt, sq)[i]) \in I16

\* C11: no value of evaluate, of delta or of old score plus or minus delta
\* leaves the signed 16-bit range, on the boards reached and, by the size of
\* the table's entries, on every board of at most 32 pieces.
C11_NoWraparound ==
  /\ PstEntriesBounded
  /\ (op = "evaluate_pst") =>
       \A i \in 1..Len(EvaluateRunning(prev)) : InI16(EvaluateRunning(prev)[i])
  /\ Moved =>
       /\ \A i \in 1..Len(DeltaRunning(prev, m)) : InI16(DeltaRunning(prev, m)[i])
       /\ InI16(evaluate(prev))
       /\ InI16(new_eval)

\* All thirty-two pieces were summed, and the sum left zero on the way.
C11_Witness ==
  /\ op = "evaluate_pst"
  /\ Cardinality(occupancy(prev)) = 32
  /\ Len(EvaluateRunning(prev)) = 33
  /\ \E i \in 1..Len(EvaluateRunning(prev)) : EvaluateRunning(prev)[i][1] < res.score[1]

\* The number of squares the piece of kind pt and colour color on sq attacks
\* that its own side does not occupy.
MobilityCount(b, pt, color, sq) == Cardinality(AttackSet(b, pt, color, sq) \ b.sides[color])

\* A board with no piece on it: no attack set is larger than the one here.
NoSides == [sides |-> [c \in Colors |-> {}]]

AttackSetsFitTable ==
  \A pt \in Pieces, color \in Colors, sq \in Squares :
    Cardinality(AttackSet(NoSides, pt, color, sq)) < MAX_MOBILITY

\* C13: every piece's count of attacked squares not held by its own side is
\* in 0..27, no attack set of any kind from any square exceeds 27 squares, and
\* the mobility evaluation does not panic.
C13_MobilityCountsInRange ==
  /\ AttackSetsFitTable
  /\ (op = "evaluate_mobility") =>
       /\ ~mob.panic
       /\ \A i \in 1..Len(mobility_terms(prev)) : ~mobility_terms(prev)[i].v.panic
       /\ \A pt \in Pieces, color \in Colors :
            \A sq \in prev.pieces[pt] \cap prev.sides[color] :
              MobilityCount(prev, pt, color, sq) \in 0..(MAX_MOBILITY - 1)

\* A queen that attacks 27 squares was scored.
C13_Witness ==
  /\ op = "evaluate_mobility"
  /\ ~mob.panic
  /\ \E sq \in prev.pieces["Queen"] \cap prev.sides["White"] :
       MobilityCount(prev, "Queen", "White", sq) = MAX_MOBILITY - 1

\* A move that is no capture, no en passant, no castle and no promotion.
Quiet == Moved /\ ~IsCapture /\ ~m.en_passant /\ ~m.castle /\ m.promote_type = None

\* C15: for a quiet move of the side to move, delta is the table value of the
\* mover's kind at the destination minus its value at the origin, both squares
\* mirrored for the mover, and nothing else; the same holds of pst_delta with
\* its own tables.
C15_QuietMoveDelta ==
  Quiet =>
    LET kind == type_at_square(prev, m.from_square)
    IN  /\ res = Ok(ScoreSub(PstAt(kind, MirroredFor(Mover, m.to_square)),
                             PstAt(kind, MirroredFor(Mover, m.from_square))))
        /\ res_old = Ok(ScoreSub(ValueAt(kind, MirroredFor(Mover, m.to_square)),
                                 ValueAt(kind, MirroredFor(Mover, m.from_square))))

\* The double push e2-e4 from the starting position.
C15_Witness ==
  /\ Quiet
  /\ prev = START_POSITION
  /\ m.from_square = 12
  /\ m.to_square = 28
  /\ res.score # Score_DRAW

\* The largest number of squares a piece of the kind can attack.
MaxCount(pt) ==
  LET counts == {Cardinality(AttackSet(NoSides, pt, color, sq)) : color \in Colors, sq \in Squares}
  IN  CHOOSE c \in counts : \A d \in counts : d <= c

\* The squares of the first and the last rank, where no pawn stands.
BackRanks == {sq \in Squares : rank(sq) \in {0, 7}}

\* The row a kind reads is a row written for that kind: its slots past the
\* kind's largest count are padding, and only the pawn's row is neutral on the
\* ranks no pawn stands on.
RowsFitKinds ==
  /\ \A pt \in Pieces : \A c \in (MaxCount(pt) + 1)..(MAX_MOBILITY - 1) :
       ATTACKS_VALUE[usize(pt) + 1][c + 1] = Score_DRAW
  /\ \A pt \in Pieces :
       (pt = "Pawn") <=> (\A sq \in BackRanks : PstAt(pt, sq) = Score_DRAW)
  /\ \A pt \in Pieces :
       (pt = "Pawn") <=> (\A sq \in BackRanks : ValueAt(pt, sq) = Score_DRAW)

C14_ForPieceFaultsPastTable ==
  (lib.op = "for_piece") =>
    IF Cardinality(lib.attacks) >= 28
      THEN lib.panic
      ELSE /\ ~lib.panic
           /\ lib.score = ATTACKS_VALUE[usize(lib.pt) + 1][Cardinality(lib.attacks) + 1]
           /\ lib.score = ATTACKS_LITERAL[usize(lib.pt) + 1][Cardinality(lib.attacks) + 1]

\* for_piece was called with 28 squares and panicked.
C14_Witness ==
  /\ lib.op = "for_piece"
  /\ Cardinality(lib.attacks) = 28
  /\ lib.panic

\* C17: every Bitboard operator returns a value without panicking, whatever
\* the masks and the shift amount.
C17_BitboardOpsTotal == (lib.op \in BitboardOps) => ~lib.panic

====
